---- MODULE Spec2Model ----
(***************************************************************************)
(* Model of extras/create_send_notifications.py: the resolution of the     *)
(* organizations owed a notification, the generation of the notification   *)
(* PDFs, the hand-over to the mailer and the deletion of notification      *)
(* records.                                                                *)
(***************************************************************************)
EXTENDS Integers, Sequences, FiniteSets, TLC

\* ------------------------------------------------------------------ bounds

\* Most notification documents the collection holds.
MaxRecords == 2

\* Deepest nesting of find_cyhy_parents frames the interpreter allows before
\* it raises "maximum recursion depth exceeded" (sys.getrecursionlimit()).
RecursionLimit == 4

\* Longest sequence of bulk deletes applied in SpecReaper.
MaxDeletes == 3

\* Most calls of build_notifications_org_list in SpecResolver.
MaxResolves == 2

\* Most documents another client inserts during a run in SpecConcurrent.
MaxInserts == 2

\* ------------------------------------------------------- the document store

\* Organization identifiers (RequestDoc _id).
Orgs == {"A", "P", "G"}

\* The values of RequestDoc.report_types that the queries tell apart.
ReportTypeSets == {{}, {"CYHY"}}

\* The values of NotificationDoc.generated_for that the queries tell apart.
GeneratedForValues == {<<>>, <<"A">>}

\* The content of a notification document, up to its _id.
NotificationDocs == [ticket_owner : Orgs, generated_for : GeneratedForValues]

RECURSIVE SumOver(_, _)
\* The sum of f[x] over the x in S.
SumOver(S, f) ==
    IF S = {} THEN 0
    ELSE LET x == CHOOSE y \in S : TRUE
         IN f[x] + SumOver(S \ {x}, f)

\* A collection of notification documents: how many documents have each
\* content (the _id of a document is opaque and never read).
Collections ==
    {c \in [NotificationDocs -> 0..MaxRecords] :
        SumOver(NotificationDocs, c) <= MaxRecords}

\* All organization hierarchies: the children array of each RequestDoc.
ChildrenRelations == [Orgs -> SUBSET Orgs]

\* The hierarchy of the runs of main: G is the parent of P, P of A.
ChainChildren == [o \in Orgs |-> CASE o = "G" -> {"P"} [] o = "P" -> {"A"} [] OTHER -> {}]

\* The report types of the runs of main: every organization is a CYHY
\* organization, or only A and G are.
MainReportTypes ==
    {[o \in Orgs |-> {"CYHY"}],
     [o \in Orgs |-> IF o = "P" THEN {} ELSE {"CYHY"}]}

VARIABLES
    pc,                  \* the position of the run in main
    log_level,           \* args["--log-level"]
    exit_code,           \* the value main returns to sys.exit
    notifications,       \* db.notifications / db.NotificationDoc.collection
    report_types,        \* RequestDoc.report_types of each organization
    children,            \* RequestDoc.children of each organization
    cyhy_org_ids_bound,  \* whether the module-level name cyhy_org_ids is bound
    cyhy_org_ids,        \* the value of cyhy_org_ids when it is bound
    existing_dirs,       \* the archive directories that exist on disk
    latest,              \* the target of notification_archive/latest
    cwd,                 \* the working directory of the process
    rendered,            \* org ids generate_notification() was called for
    outcomes,            \* the outcomes of the renderer's calls, per org id
    num_pdfs_created,    \* the counter, then the result, of the generation
    unknown_outcome,     \* whether the renderer returned an unknown outcome
    delivery_invoked,    \* whether docker compose was started in this run
    return_code,         \* p.returncode once communicate() has returned
    deleted_counts,      \* the result.deleted_count values logged, in order
    store_ops,           \* the operations executed on the store, in order
    resolved             \* the result of build_notifications_org_list

\* What the run is given and never assigns: the command line, the
\* organizations of the store and the global cyhy_org_ids.
environment ==
    <<log_level, report_types, children, cyhy_org_ids_bound, cyhy_org_ids>>

vars ==
    <<pc, log_level, exit_code, notifications, report_types, children,
      cyhy_org_ids_bound, cyhy_org_ids, existing_dirs, latest, cwd, rendered,
      outcomes, num_pdfs_created, unknown_outcome, delivery_invoked,
      return_code, deleted_counts, store_ops, resolved>>

\* ---------------------------------------------------------- store queries

\* collection.distinct("ticket_owner")
Distinct(coll) ==
    {d.ticket_owner : d \in {k \in NotificationDocs : coll[k] > 0}}

\* The documents selected by {"generated_for": []}.
GeneratedForEmpty == {d \in NotificationDocs : d.generated_for = <<>>}

\* The documents selected by {"generated_for": {"$ne": []}}.
GeneratedForNotEmpty == {d \in NotificationDocs : d.generated_for # <<>>}

\* The documents selected by {"ticket_owner": {"$ne": "A"}}.
TicketOwnerNotFirst(ids) == {d \in NotificationDocs : d.ticket_owner # "A"}

\* The documents selected by {"ticket_owner": {"$nin": ids}}.
TicketOwnerNotIn(ids) == {d \in NotificationDocs : d.ticket_owner \notin ids}

\* A delete that removes a single matching document (delete_one).
DeleteOne(coll, selected) ==
    IF \E d \in selected : coll[d] > 0
    THEN LET d == CHOOSE e \in selected : coll[e] > 0
         IN [collection |-> [coll EXCEPT ![d] = @ - 1], deleted_count |-> 1]
    ELSE [collection |-> coll, deleted_count |-> 0]

\* collection.delete_many(query): every selected document is removed and
\* their number is reported.
DeleteMany(coll, selected) ==
    [collection |-> [d \in NotificationDocs |->
                        IF d \in selected THEN 0 ELSE coll[d]],
     deleted_count |-> SumOver(selected, coll)]

\* ---------------------------------------------------------------- resolver

\* RequestDoc.collection.find({"children": org_id, "report_types": "CYHY"})
FindParents(rt, ch, org_id) ==
    {p \in Orgs : org_id \in ch[p] /\ "CYHY" \in rt[p]}

\* RequestDoc.collection.find({"_id": {"$in": ids}, "report_types": "CYHY"})
FindRequests(rt, ids) == {o \in Orgs : o \in ids /\ "CYHY" \in rt[o]}

\* Only the direct parents: the recursive call left out.
find_direct_parents(rt, ch, org_id, depth) ==
    [raised |-> FALSE, value |-> FindParents(rt, ch, org_id)]

RECURSIVE find_cyhy_parents(_, _, _, _)
\* find_cyhy_parents(db, org_id) called as the depth-th nested frame: the set
\* of parents found, or the RecursionError the interpreter raises when the
\* nesting exceeds its limit.
find_cyhy_parents(rt, ch, org_id, depth) ==
    IF depth > RecursionLimit
    THEN [raised |-> TRUE, value |-> {}]
    ELSE LET found == FindParents(rt, ch, org_id)
             sub == [p \in found |-> find_cyhy_parents(rt, ch, p, depth + 1)]
         IN IF \E p \in found : sub[p].raised
            THEN [raised |-> TRUE, value |-> {}]
            ELSE [raised |-> FALSE,
                  value |-> found \cup UNION {sub[p].value : p \in found}]

\* build_notifications_org_list(db)
build_notifications_org_list(coll, rt, ch) ==
    LET ticket_owner_ids == Distinct(coll)
        requests == FindRequests(rt, ticket_owner_ids)
        parents == [o \in requests |-> find_cyhy_parents(rt, ch, o, 1)]
    IN IF \E o \in requests : parents[o].raised
       THEN [raised |-> TRUE, value |-> {}]
       ELSE [raised |-> FALSE,
             value |-> requests \cup UNION {parents[o].value : o \in requests}]

\* ------------------------------------------------- resolver specification

\* The values of the run that the resolver does not touch.
IdleRun ==
    /\ log_level = "warning"
    /\ exit_code = -1
    /\ cyhy_org_ids_bound = FALSE
    /\ cyhy_org_ids = {}
    /\ existing_dirs = {}
    /\ latest = "absent"
    /\ cwd = "initial"
    /\ rendered = {}
    /\ outcomes = [o \in Orgs |-> <<>>]
    /\ num_pdfs_created = 0
    /\ unknown_outcome = FALSE
    /\ delivery_invoked = FALSE
    /\ return_code = -1
    /\ deleted_counts = <<>>
    /\ store_ops = <<>>

InitResolver ==
    /\ pc = "resolve"
    /\ notifications \in Collections
    /\ report_types \in [Orgs -> ReportTypeSets]
    /\ children \in ChildrenRelations
    /\ resolved = [raised |-> FALSE, value |-> {}]
    /\ IdleRun

\* A call of build_notifications_org_list that also deletes the documents of
\* the ticket owners it has read.
ResolveReturnsConsuming ==
    /\ pc \in {"resolve", "resolved"}
    /\ Len(store_ops) < MaxResolves
    /\ LET r == build_notifications_org_list(notifications, report_types, children)
       IN /\ ~r.raised
          /\ resolved' = r
    /\ notifications' =
           DeleteMany(notifications,
                      NotificationDocs \ TicketOwnerNotIn(Distinct(notifications))).collection
    /\ store_ops' = Append(store_ops, "distinct")
    /\ pc' = "resolved"
    /\ UNCHANGED <<environment, exit_code, existing_dirs, latest, cwd, rendered,
                   outcomes, num_pdfs_created, unknown_outcome,
                   delivery_invoked, return_code, deleted_counts>>

\* A call of build_notifications_org_list that returns; it queries the store
\* (distinct at line 54, find at lines 55 and 69) and writes nothing.
ResolveReturns ==
    /\ pc \in {"resolve", "resolved"}
    /\ Len(store_ops) < MaxResolves
    /\ LET r == build_notifications_org_list(notifications, report_types, children)
       IN /\ ~r.raised
          /\ resolved' = r
    /\ store_ops' = Append(store_ops, "distinct")
    /\ pc' = "resolved"
    /\ UNCHANGED <<environment, exit_code, notifications, existing_dirs,
                   latest, cwd, rendered, outcomes, num_pdfs_created,
                   unknown_outcome, delivery_invoked, return_code,
                   deleted_counts>>

\* A call of build_notifications_org_list that ends in a RecursionError.
ResolveRaises ==
    /\ pc \in {"resolve", "resolved"}
    /\ Len(store_ops) < MaxResolves
    /\ LET r == build_notifications_org_list(notifications, report_types, children)
       IN /\ r.raised
          /\ resolved' = r
    /\ store_ops' = Append(store_ops, "distinct")
    /\ pc' = "raised"
    /\ UNCHANGED <<environment, exit_code, notifications, existing_dirs,
                   latest, cwd, rendered, outcomes, num_pdfs_created,
                   unknown_outcome, delivery_invoked, return_code,
                   deleted_counts>>

NextResolver == ResolveReturns \/ ResolveRaises

SpecResolver == InitResolver /\ [][NextResolver]_vars

\* ------------------------------------------------------------ command line

\* The values given to --log-level in the runs modelled.
LogLevelArgs == {"warning", "Info", "verbose"}

\* str.upper() on the values of LogLevelArgs.
Upper(s) ==
    CASE s = "warning" -> "WARNING"
      [] s = "Info" -> "INFO"
      [] s = "verbose" -> "VERBOSE"

\* The level names logging.basicConfig accepts; any other raises ValueError.
LevelNames == {"DEBUG", "INFO", "WARNING", "ERROR", "CRITICAL"}

\* Whether logging.basicConfig(level=log_level.upper()) raises ValueError.
RaisesValueError(level) == Upper(level) \notin LevelNames

\* ------------------------------------------------------------- file system

\* os.path.join(NOTIFICATIONS_BASE_DIR, NOTIFICATION_ARCHIVE_DIR) of this
\* run, and the directory of an earlier run.
TodayDir == "notifications_today"
EarlierDir == "notifications_earlier"
ArchiveDirs == {TodayDir, EarlierDir}

\* os.path.exists(latest_notifications): follows the link, so a link whose
\* target is gone does not exist.
PathExists(link, dirs) == link # "absent" /\ link \in dirs

\* ---------------------------------------------------------------- renderer

\* The pairs (was_encrypted, results) generate_notification() can return;
\* results is None or holds the "notifications" list.
RendererReturns ==
    [was_encrypted : BOOLEAN,
     is_none : BOOLEAN,
     notifications : {<<>>, <<"n1">>}]

\* Which message lines 86-92 log for a return value of the renderer: "Created
\* encrypted notification PDF", "No notifications found, no PDF created" or
\* "Unknown error occurred".
Outcome(ret) ==
    IF ret.was_encrypted THEN "encrypted"
    ELSE IF ~ret.is_none /\ ret.notifications = <<>> THEN "no_content"
         ELSE "unknown"

\* A loop that yields the elements of org_ids over and over.
NextOrgIdsAgain(org_ids, visited) == org_ids

\* The org ids "for org_id in org_ids" has yet to yield: each element of
\* org_ids is yielded once.
NextOrgIds(org_ids, visited) == org_ids \ visited

\* An iteration that logs the unknown error and goes on with the next org id.
GenerateStepContinues(count, ret) ==
    IF ret.was_encrypted
    THEN [returned |-> FALSE, value |-> count + 1]
    ELSE [returned |-> FALSE, value |-> count]

\* An iteration that counts every PDF attempt that is not an error.
GenerateStepCountsNoContent(count, ret) ==
    IF ret.was_encrypted \/ (~ret.is_none /\ Len(ret.notifications) = 0)
    THEN [returned |-> FALSE, value |-> count + 1]
    ELSE [returned |-> TRUE, value |-> -1]

\* One iteration of the loop of generate_notification_pdfs on the renderer's
\* return value: the counter afterwards, or the value returned at once.
GenerateStep(count, ret) ==
    IF ret.was_encrypted
    THEN [returned |-> FALSE, value |-> count + 1]
    ELSE IF ~ret.is_none /\ Len(ret.notifications) = 0
         THEN [returned |-> FALSE, value |-> count]
         ELSE [returned |-> TRUE, value |-> -1]

\* The truth value of an integer in "if num_pdfs_created:".
Truthy(n) == n # 0

\* The exit statuses of "docker compose ... up" told apart.
ReturnCodes == {0, 1}

\* The values of cyhy_org_ids, the organizations the deployment is
\* configured to notify; the file uses the name and never assigns it.
EligibleOrgSets == SUBSET Orgs

\* -------------------------------------------------------------------- main

Init ==
    /\ pc = "configure_logging"
    /\ log_level \in LogLevelArgs
    /\ exit_code = -1
    /\ notifications \in Collections
    /\ report_types \in MainReportTypes
    /\ children = ChainChildren
    /\ cyhy_org_ids_bound \in BOOLEAN
    /\ cyhy_org_ids \in (IF cyhy_org_ids_bound THEN EligibleOrgSets ELSE {{}})
    /\ existing_dirs \in SUBSET ArchiveDirs
    /\ latest \in {"absent"} \cup ArchiveDirs
    /\ cwd = "initial"
    /\ rendered = {}
    /\ outcomes = [o \in Orgs |-> <<>>]
    /\ num_pdfs_created = 0
    /\ unknown_outcome = FALSE
    /\ delivery_invoked = FALSE
    /\ return_code = -1
    /\ deleted_counts = <<>>
    /\ store_ops = <<>>
    /\ resolved = [raised |-> FALSE, value |-> {}]

\* Setting up logging where the ValueError is logged and the run goes on.
ConfigureLoggingContinues ==
    /\ pc = "configure_logging"
    /\ pc' = "connect"
    /\ UNCHANGED <<environment, exit_code, notifications, existing_dirs,
                   latest, cwd, rendered, outcomes, num_pdfs_created,
                   unknown_outcome, delivery_invoked, return_code,
                   deleted_counts, store_ops, resolved>>

\* Lines 99-111: set up logging; an invalid level ends the run with 1.
ConfigureLogging ==
    /\ pc = "configure_logging"
    /\ IF RaisesValueError(log_level)
       THEN pc' = "done" /\ exit_code' = 1
       ELSE pc' = "connect" /\ exit_code' = exit_code
    /\ UNCHANGED <<environment, notifications, existing_dirs, latest, cwd,
                   rendered, outcomes, num_pdfs_created, unknown_outcome,
                   delivery_invoked, return_code, deleted_counts, store_ops,
                   resolved>>

\* Line 114: database.db_from_config.
ConnectDatabase ==
    /\ pc = "connect"
    /\ store_ops' = Append(store_ops, "connect")
    /\ pc' = "create_dirs"
    /\ UNCHANGED <<environment, exit_code, notifications, existing_dirs,
                   latest, cwd, rendered, outcomes, num_pdfs_created,
                   unknown_outcome, delivery_invoked, return_code,
                   deleted_counts, resolved>>

\* Lines 117-120: create_output_directories() and the chdir into the result.
CreateOutputDirectories ==
    /\ pc = "create_dirs"
    /\ existing_dirs' = existing_dirs \cup {TodayDir}
    /\ cwd' = TodayDir
    /\ pc' = "generate"
    /\ UNCHANGED <<environment, exit_code, notifications, latest, rendered,
                   outcomes, num_pdfs_created, unknown_outcome,
                   delivery_invoked, return_code, deleted_counts, store_ops,
                   resolved>>

\* Line 124: the name cyhy_org_ids is looked up for the call; when nothing
\* has bound it NameError is raised, and the uncaught exception ends the
\* process with status 1.
GenerateNameError ==
    /\ pc = "generate"
    /\ ~cyhy_org_ids_bound
    /\ pc' = "raised"
    /\ exit_code' = 1
    /\ UNCHANGED <<environment, notifications, existing_dirs, latest, cwd,
                   rendered, outcomes, num_pdfs_created, unknown_outcome,
                   delivery_invoked, return_code, deleted_counts, store_ops,
                   resolved>>

\* Lines 80-93: one iteration of the loop over org_ids (= cyhy_org_ids, line
\* 124), in whatever order the iteration yields them.
GenerateNotificationPdf ==
    /\ pc = "generate"
    /\ cyhy_org_ids_bound
    /\ \E org_id \in NextOrgIds(cyhy_org_ids, rendered), ret \in RendererReturns :
          LET step == GenerateStep(num_pdfs_created, ret)
          IN /\ rendered' = rendered \cup {org_id}
             /\ outcomes' = [outcomes EXCEPT ![org_id] = Append(@, Outcome(ret))]
             /\ num_pdfs_created' = step.value
             /\ unknown_outcome' = (unknown_outcome \/ Outcome(ret) = "unknown")
             /\ pc' = IF step.returned THEN "repoint" ELSE "generate"
    /\ UNCHANGED <<environment, exit_code, notifications, existing_dirs,
                   latest, cwd, delivery_invoked, return_code,
                   deleted_counts, store_ops, resolved>>

\* Line 94 and lines 124-125: the loop is exhausted, the counter is returned.
GenerateReturn ==
    /\ pc = "generate"
    /\ cyhy_org_ids_bound
    /\ NextOrgIds(cyhy_org_ids, rendered) = {}
    /\ pc' = "repoint"
    /\ UNCHANGED <<environment, exit_code, notifications, existing_dirs,
                   latest, cwd, rendered, outcomes, num_pdfs_created,
                   unknown_outcome, delivery_invoked, return_code,
                   deleted_counts, store_ops, resolved>>

\* Lines 132-133: remove the link when os.path.exists says it is there.
RemoveLatest ==
    /\ pc = "repoint"
    /\ latest' = IF PathExists(latest, existing_dirs) THEN "absent" ELSE latest
    /\ pc' = "symlink"
    /\ UNCHANGED <<environment, exit_code, notifications, existing_dirs, cwd,
                   rendered, outcomes, num_pdfs_created, unknown_outcome,
                   delivery_invoked, return_code, deleted_counts, store_ops,
                   resolved>>

\* A symlink step that swallows the OSError and goes on with the old link.
SymlinkLatestIgnoringError ==
    /\ pc = "symlink"
    /\ latest' = IF latest = "absent" THEN TodayDir ELSE latest
    /\ pc' = "gate"
    /\ UNCHANGED <<environment, exit_code, notifications, existing_dirs, cwd,
                   rendered, outcomes, num_pdfs_created, unknown_outcome,
                   delivery_invoked, return_code, deleted_counts, store_ops,
                   resolved>>

\* Lines 134-137: os.symlink; it raises OSError (file exists) when the link
\* is still there, and the uncaught exception ends the process with status 1.
SymlinkLatest ==
    /\ pc = "symlink"
    /\ IF latest = "absent"
       THEN latest' = TodayDir /\ pc' = "gate" /\ exit_code' = exit_code
       ELSE latest' = latest /\ pc' = "raised" /\ exit_code' = 1
    /\ UNCHANGED <<environment, notifications, existing_dirs, cwd, rendered,
                   outcomes, num_pdfs_created, unknown_outcome,
                   delivery_invoked, return_code, deleted_counts, store_ops,
                   resolved>>

\* A delivery that is started and not waited for (no communicate()).
StartDeliveryNoWait ==
    /\ pc = "gate"
    /\ Truthy(num_pdfs_created)
    /\ cwd' = "cyhy-mailer"
    /\ delivery_invoked' = TRUE
    /\ pc' = "delete_generated"
    /\ UNCHANGED <<environment, exit_code, notifications, existing_dirs,
                   latest, rendered, outcomes, num_pdfs_created,
                   unknown_outcome, return_code, deleted_counts, store_ops,
                   resolved>>

\* Lines 139-156: the value of the generation is truthy; chdir to the mailer
\* and start docker compose.
StartDelivery ==
    /\ pc = "gate"
    /\ Truthy(num_pdfs_created)
    /\ cwd' = "cyhy-mailer"
    /\ delivery_invoked' = TRUE
    /\ pc' = "communicate"
    /\ UNCHANGED <<environment, exit_code, notifications, existing_dirs,
                   latest, rendered, outcomes, num_pdfs_created,
                   unknown_outcome, return_code, deleted_counts, store_ops,
                   resolved>>

\* Lines 174-175: nothing to email.
SkipDelivery ==
    /\ pc = "gate"
    /\ ~Truthy(num_pdfs_created)
    /\ pc' = "delete_ineligible"
    /\ UNCHANGED <<environment, exit_code, notifications, existing_dirs,
                   latest, cwd, rendered, outcomes, num_pdfs_created,
                   unknown_outcome, delivery_invoked, return_code,
                   deleted_counts, store_ops, resolved>>

\* Lines 157-164: communicate() returns when the process has ended; its
\* status is logged.
Communicate ==
    /\ pc = "communicate"
    /\ return_code' \in ReturnCodes
    /\ pc' = "delete_generated"
    /\ UNCHANGED <<environment, exit_code, notifications, existing_dirs,
                   latest, cwd, rendered, outcomes, num_pdfs_created,
                   unknown_outcome, delivery_invoked, deleted_counts,
                   store_ops, resolved>>

\* Lines 166-173: delete every NotificationDoc whose generated_for is not [].
DeleteGenerated ==
    /\ pc = "delete_generated"
    /\ LET result == DeleteMany(notifications, GeneratedForNotEmpty)
       IN /\ notifications' = result.collection
          /\ deleted_counts' = Append(deleted_counts, result.deleted_count)
    /\ store_ops' = Append(store_ops, "delete_generated")
    /\ pc' = "delete_ineligible"
    /\ UNCHANGED <<environment, exit_code, existing_dirs, latest, cwd,
                   rendered, outcomes, num_pdfs_created, unknown_outcome,
                   delivery_invoked, return_code, resolved>>

\* Lines 177-186: delete every NotificationDoc whose ticket_owner is not in
\* cyhy_org_ids.
DeleteIneligible ==
    /\ pc = "delete_ineligible"
    /\ LET result == DeleteMany(notifications, TicketOwnerNotIn(cyhy_org_ids))
       IN /\ notifications' = result.collection
          /\ deleted_counts' = Append(deleted_counts, result.deleted_count)
    /\ store_ops' = Append(store_ops, "delete_ineligible")
    /\ pc' = "shutdown"
    /\ UNCHANGED <<environment, exit_code, existing_dirs, latest, cwd,
                   rendered, outcomes, num_pdfs_created, unknown_outcome,
                   delivery_invoked, return_code, resolved>>

\* Lines 188-190: logging.shutdown() and return 0.
Shutdown ==
    /\ pc = "shutdown"
    /\ exit_code' = 0
    /\ pc' = "done"
    /\ UNCHANGED <<environment, notifications, existing_dirs, latest, cwd,
                   rendered, outcomes, num_pdfs_created, unknown_outcome,
                   delivery_invoked, return_code, deleted_counts, store_ops,
                   resolved>>

Next ==
    \/ ConfigureLogging
    \/ ConnectDatabase
    \/ CreateOutputDirectories
    \/ GenerateNameError
    \/ GenerateNotificationPdf
    \/ GenerateReturn
    \/ RemoveLatest
    \/ SymlinkLatest
    \/ StartDelivery
    \/ SkipDelivery
    \/ Communicate
    \/ DeleteGenerated
    \/ DeleteIneligible
    \/ Shutdown

Spec == Init /\ [][Next]_vars

\* --------------------------------------------------- reaper specification

InitReaper ==
    /\ pc = "reap"
    /\ notifications \in Collections
    /\ cyhy_org_ids_bound = TRUE
    /\ cyhy_org_ids \in EligibleOrgSets
    /\ report_types = [o \in Orgs |-> {"CYHY"}]
    /\ children = ChainChildren
    /\ log_level = "warning"
    /\ exit_code = -1
    /\ existing_dirs = {}
    /\ latest = "absent"
    /\ cwd = "initial"
    /\ rendered = {}
    /\ outcomes = [o \in Orgs |-> <<>>]
    /\ num_pdfs_created = 0
    /\ unknown_outcome = FALSE
    /\ delivery_invoked = FALSE
    /\ return_code = -1
    /\ deleted_counts = <<>>
    /\ store_ops = <<>>
    /\ resolved = [raised |-> FALSE, value |-> {}]

\* The delete of lines 167-169, executed on its own.
ReapGenerated ==
    /\ pc = "reap"
    /\ Len(store_ops) < MaxDeletes
    /\ LET result == DeleteMany(notifications, GeneratedForNotEmpty)
       IN /\ notifications' = result.collection
          /\ deleted_counts' = Append(deleted_counts, result.deleted_count)
    /\ store_ops' = Append(store_ops, "delete_generated")
    /\ UNCHANGED <<environment, pc, exit_code, existing_dirs, latest, cwd,
                   rendered, outcomes, num_pdfs_created, unknown_outcome,
                   delivery_invoked, return_code, resolved>>

\* The delete of lines 179-181, executed on its own.
ReapIneligible ==
    /\ pc = "reap"
    /\ Len(store_ops) < MaxDeletes
    /\ LET result == DeleteMany(notifications, TicketOwnerNotIn(cyhy_org_ids))
       IN /\ notifications' = result.collection
          /\ deleted_counts' = Append(deleted_counts, result.deleted_count)
    /\ store_ops' = Append(store_ops, "delete_ineligible")
    /\ UNCHANGED <<environment, pc, exit_code, existing_dirs, latest, cwd,
                   rendered, outcomes, num_pdfs_created, unknown_outcome,
                   delivery_invoked, return_code, resolved>>

NextReaper == ReapGenerated \/ ReapIneligible

SpecReaper == InitReaper /\ [][NextReaper]_vars

\* ----------------------------------------------- concurrent specification

\* Another client of the database inserts one notification document while
\* main runs.
ConcurrentInsert ==
    /\ pc \notin {"done", "raised"}
    /\ Cardinality({i \in 1..Len(store_ops) : store_ops[i] = "insert"}) < MaxInserts
    /\ SumOver(NotificationDocs, notifications) < MaxRecords
    /\ \E d \in NotificationDocs :
          notifications' = [notifications EXCEPT ![d] = @ + 1]
    /\ store_ops' = Append(store_ops, "insert")
    /\ UNCHANGED <<environment, pc, exit_code, existing_dirs, latest, cwd,
                   rendered, outcomes, num_pdfs_created, unknown_outcome,
                   delivery_invoked, return_code, deleted_counts, resolved>>

\* The runs of main that the inserts are interleaved with: a valid log level,
\* the archive of an earlier run on disk, G never in cyhy_org_ids.
InitConcurrent ==
    /\ Init
    /\ log_level = "warning"
    /\ report_types = [o \in Orgs |-> {"CYHY"}]
    /\ cyhy_org_ids \subseteq {"A", "P"}
    /\ existing_dirs = {EarlierDir}
    /\ latest \in {"absent", EarlierDir}

NextConcurrent == Next \/ ConcurrentInsert

SpecConcurrent == InitConcurrent /\ [][NextConcurrent]_vars

\* ------------------------------------------------------------------ claims

\* The operations of the run on the store, as a set.
StoreOps == {store_ops[i] : i \in 1..Len(store_ops)}

\* How many times op was executed on the store.
Executions(op) == Cardinality({i \in 1..Len(store_ops) : store_ops[i] = op})

\* The run has ended: main returned or an uncaught exception ended it.
Ended == pc \in {"done", "raised"}

\* C1: once the renderer has returned an unknown outcome, the run never starts
\* the delivery and never executes the delete of the documents with a
\* non-empty generated_for.
C1_UnknownOutcomeAbortsRun ==
    unknown_outcome =>
        /\ ~delivery_invoked
        /\ "delete_generated" \notin StoreOps

\* C2: the delete of the documents with a non-empty generated_for is executed
\* only in a run whose delivery returned exit status 0; after a non-zero
\* status those documents are still in the collection until the
\* ineligible-owner pass.
C2_FailedDeliveryKeepsBatch ==
    /\ "delete_generated" \in StoreOps => return_code = 0
    /\ (return_code \in ReturnCodes \ {0} /\ pc = "delete_ineligible") =>
           "delete_generated" \notin StoreOps

\* C3: the delivery is started if and only if the value returned by the
\* generation is a positive count; for zero and for the fatal-error signal it
\* is not started.
C3_DeliveryIffPositiveCount ==
    /\ delivery_invoked => num_pdfs_created > 0
    /\ (pc \in {"communicate", "delete_generated", "delete_ineligible",
                "shutdown"} /\ num_pdfs_created > 0) => delivery_invoked

\* The scenario of C4: A is a CYHY organization that lists itself as a child,
\* has no other parent, and owns the only notifications.
SelfCycleScenario ==
    /\ "CYHY" \in report_types["A"]
    /\ "A" \in children["A"]
    /\ FindParents(report_types, children, "A") = {"A"}
    /\ Distinct(notifications) = {"A"}

\* C4: the resolver returns on every organization graph, cyclic ones
\* included, and on the self-cycle A -> A with seed set {A} it returns {A}.
C4_ResolverTerminates ==
    pc # "resolve" =>
        /\ ~resolved.raised
        /\ SelfCycleScenario => resolved.value = {"A"}

\* The seed set: the CYHY organizations that own a notification document.
Seeds ==
    {o \in Orgs :
        /\ "CYHY" \in report_types[o]
        /\ \E d \in NotificationDocs : d.ticket_owner = o /\ notifications[d] > 0}

RECURSIVE AncestorClosure(_)
\* S with every CYHY organization that has a member of S among its children,
\* repeated until nothing is added.
AncestorClosure(S) ==
    LET more == S \cup {p \in Orgs :
                          /\ "CYHY" \in report_types[p]
                          /\ \E o \in S : o \in children[p]}
    IN IF more = S THEN S ELSE AncestorClosure(more)

\* C5: whenever the resolver returns, its result is exactly the seed set
\* united with every organization reachable from a seed by parent steps: a
\* superset of the seeds, with the ancestors of every level, and with no
\* organization that is unreachable or is not a CYHY organization.
C5_ResolverResultIsAncestorClosure ==
    pc = "resolved" =>
        /\ resolved.value = AncestorClosure(Seeds)
        /\ Seeds \subseteq resolved.value
        /\ \A o \in resolved.value : "CYHY" \in report_types[o]

\* C5 witness: seed {A}, parent P of A, parent G of P, and the result {A, P, G}.
C5_ThreeLevelsResolved ==
    /\ pc = "resolved"
    /\ Seeds = {"A"}
    /\ FindParents(report_types, children, "A") = {"P"}
    /\ FindParents(report_types, children, "P") = {"G"}
    /\ FindParents(report_types, children, "G") = {}
    /\ resolved.value = {"A", "P", "G"}

\* C6: the organizations the renderer is invoked on are those the resolver
\* returns for the store of the run: no other organization is rendered, and
\* when the generation ends without an unknown outcome all of them were.
C6_RenderedIsResolverOutput ==
    LET r == build_notifications_org_list(notifications, report_types, children)
    IN pc \in {"generate", "repoint"} =>
          /\ ~r.raised
          /\ rendered \subseteq r.value
          /\ (pc = "repoint" /\ ~unknown_outcome) => rendered = r.value

\* C7: every run that passes the log-level validation executes the
\* ineligible-owner delete exactly once, as its last store operation.
C7_IneligibleCleanupOnceAndLast ==
    (Ended /\ ~RaisesValueError(log_level)) =>
        /\ Executions("delete_ineligible") = 1
        /\ store_ops[Len(store_ops)] = "delete_ineligible"

\* C8: with an invalid log level the run ends with exit code 1 in its first
\* step, and no step of the run touches the store, the renderer, the
\* delivery, the directories or the link.
C8_InvalidLogLevelTouchesNothing ==
    [][RaisesValueError(log_level) =>
          /\ pc' = "done"
          /\ exit_code' = 1
          /\ UNCHANGED <<notifications, existing_dirs, latest, cwd, rendered,
                         outcomes, num_pdfs_created, delivery_invoked,
                         return_code, deleted_counts, store_ops>>]_vars

\* C8 witness: a run with an invalid log level has ended.
C8_InvalidLogLevelEnded ==
    /\ RaisesValueError(log_level)
    /\ pc = "done"
    /\ exit_code = 1
    /\ store_ops = <<>>

\* C9: exit code 0 is returned only by a run with a valid configuration and
\* no unknown renderer outcome; a run with an unknown outcome ends with a
\* non-zero exit code other than 1.
C9_FatalGenerationExitCode ==
    Ended =>
        /\ exit_code = 0 => (~unknown_outcome /\ ~RaisesValueError(log_level))
        /\ unknown_outcome => exit_code \notin {0, 1}

\* C10: when the delete of the documents with a non-empty generated_for is
\* executed right after itself, the second execution reports 0 deleted
\* documents and leaves the collection as it is; the first one leaves no
\* document with a non-empty generated_for.
C10_DeliveredCleanupIdempotent ==
    [][store_ops' = Append(store_ops, "delete_generated") =>
          /\ \A d \in GeneratedForNotEmpty : notifications'[d] = 0
          /\ (Len(store_ops) > 0 /\ store_ops[Len(store_ops)] = "delete_generated") =>
                /\ deleted_counts'[Len(deleted_counts')] = 0
                /\ notifications' = notifications]_vars

\* C10 witness: the delete was executed twice in a row; the first execution
\* deleted two documents, the second none.
C10_DeletedTwiceInARow ==
    /\ store_ops = <<"delete_generated", "delete_generated">>
    /\ deleted_counts = <<2, 0>>

C12_ResolverReadsOnlyAndRepeats ==
    [][(pc = "resolve" \/ pc = "resolved") =>
          /\ UNCHANGED <<notifications, report_types, children>>
          /\ (pc = "resolved" /\ pc' = "resolved") => resolved' = resolved]_vars

\* C12 witness: the resolver was called twice and returned a non-empty set.
C12_ResolvedTwice ==
    /\ pc = "resolved"
    /\ store_ops = <<"distinct", "distinct">>
    /\ resolved.value # {}

\* C13: once the renderer has returned an unknown outcome the function has
\* left its loop with the fatal-error signal: the renderer is not invoked for
\* any further organization, and the signal (a negative value) is the result
\* exactly when an unknown outcome occurred, so no count is mistaken for it.
C13_UnknownOutcomeStopsGeneration ==
    [][/\ unknown_outcome' => pc' # "generate"
       /\ unknown_outcome' <=> num_pdfs_created' < 0
       /\ unknown_outcome => UNCHANGED <<outcomes, rendered, num_pdfs_created>>
      ]_vars

\* C13 witness: a run has ended after an unknown outcome with an organization
\* of cyhy_org_ids left unrendered.
C13_LaterOrgsNotRendered ==
    /\ Ended
    /\ unknown_outcome
    /\ num_pdfs_created = -1
    /\ rendered # {}
    /\ cyhy_org_ids \ rendered # {}

\* How many of the renderer's calls so far ended with the outcome given.
OutcomeCount(outcome) ==
    SumOver(Orgs, [o \in Orgs |->
        Cardinality({i \in 1..Len(outcomes[o]) : outcomes[o][i] = outcome})])

\* C14: as long as no outcome is unknown, the counter of the generation, and
\* so its result, is exactly the number of encrypted-success outcomes; a
\* no-content outcome leaves the counter alone and ends nothing; and every
\* return value of the renderer is handled as exactly one of the three cases.
C14_CountIsEncryptedOutcomes ==
    /\ ~unknown_outcome => num_pdfs_created = OutcomeCount("encrypted")
    /\ \A ret \in RendererReturns, count \in 0..Cardinality(Orgs) :
          LET step == GenerateStep(count, ret)
          IN CASE Outcome(ret) = "encrypted" ->
                    step = [returned |-> FALSE, value |-> count + 1]
               [] Outcome(ret) = "no_content" ->
                    step = [returned |-> FALSE, value |-> count]
               [] Outcome(ret) = "unknown" ->
                    step = [returned |-> TRUE, value |-> -1]

\* C14 witness: the generation returned 2 after two encrypted PDFs and one
\* organization without notifications.
C14_TwoEncryptedOneNoContent ==
    /\ pc = "repoint"
    /\ ~unknown_outcome
    /\ num_pdfs_created = 2
    /\ OutcomeCount("encrypted") = 2
    /\ OutcomeCount("no_content") = 1

\* The generation loop is over: it returned early or has no org id left.
GenerationFinished ==
    /\ pc \notin {"configure_logging", "connect", "create_dirs", "generate"}
    /\ unknown_outcome \/ NextOrgIds(cyhy_org_ids, rendered) = {}

\* The delete operations the run has executed so far.
DeletesDone == StoreOps \cap {"delete_generated", "delete_ineligible"}

\* C15: a run goes generate-all, then delivery, then the delivered-batch
\* delete, then the ineligible-owner delete: the delivery starts only when
\* the generation loop is over and nothing was deleted yet, and a delete is
\* executed only when the generation loop is over and the delivery, if one
\* was started, has completed with its exit status; the delivered-batch
\* delete never follows the ineligible-owner delete.
C15_StrictlySequentialRun ==
    [][/\ (delivery_invoked' /\ ~delivery_invoked) =>
              (GenerationFinished /\ DeletesDone = {})
       /\ store_ops' # store_ops /\ store_ops'[Len(store_ops')] # "connect" =>
              /\ GenerationFinished
              /\ delivery_invoked => return_code \in ReturnCodes
              /\ "delete_ineligible" \notin DeletesDone
      ]_vars

\* C15 witness: a run that rendered, delivered and executed both deletes.
C15_FullRunEnded ==
    /\ pc = "done"
    /\ rendered = cyhy_org_ids
    /\ rendered # {}
    /\ delivery_invoked
    /\ return_code = 0
    /\ store_ops = <<"connect", "delete_generated", "delete_ineligible">>

\* C16: whenever the delivery has been started, the "latest" link exists and
\* points to the directory of the current run, which exists.
C16_LatestPointsToCurrentRunAtDelivery ==
    delivery_invoked => (latest = TodayDir /\ TodayDir \in existing_dirs)

\* C16 witness: the delivery is running, next to the directory of an earlier
\* run, with the link on the directory of this run.
C16_DeliveryRunningWithLatest ==
    /\ pc = "communicate"
    /\ delivery_invoked
    /\ latest = TodayDir
    /\ EarlierDir \in existing_dirs

\* A notification document that no delete of main selects: nothing was
\* generated for it and its owner is in cyhy_org_ids.
Kept(d) == d.generated_for = <<>> /\ d.ticket_owner \in cyhy_org_ids

\* C17: no step of a run, with the inserts of another client interleaved at
\* any point, removes a notification document whose generated_for is empty
\* and whose ticket_owner is in cyhy_org_ids; the delete of the documents
\* with a non-empty generated_for leaves every document with an empty
\* generated_for as it is, and the delete of the documents of the other
\* owners leaves every document with an owner in cyhy_org_ids as it is; each
\* delete is one step.
C17_DeletesOnlyWhatIsSelected ==
    [][(\A d \in NotificationDocs :
          /\ Kept(d) => notifications'[d] >= notifications[d]
          /\ (pc = "delete_generated" /\ pc' = "delete_ineligible"
                /\ d.generated_for = <<>>)
                => notifications'[d] = notifications[d]
          /\ (pc = "delete_ineligible" /\ pc' = "shutdown"
                /\ d.ticket_owner \in cyhy_org_ids)
                => notifications'[d] = notifications[d])
       /\ (notifications' # notifications =>
              Len(store_ops') = Len(store_ops) + 1)
      ]_vars

\* C17 witness: the first delete removed the two documents of the store, a
\* document of A with an empty generated_for, A in cyhy_org_ids, was then
\* inserted by the other client, and it is there after the second delete,
\* which removed a document inserted for an owner outside cyhy_org_ids.
C17_InsertedRecordSurvivesBothDeletes ==
    /\ pc = "done"
    /\ "A" \in cyhy_org_ids
    /\ deleted_counts = <<2, 1>>
    /\ store_ops = <<"connect", "delete_generated", "insert", "insert",
                     "delete_ineligible">>
    /\ notifications[[ticket_owner |-> "A", generated_for |-> <<>>]] = 1

\* C18: the repoint of the "latest" link completes from every prior state
\* of the link (absent, on an existing directory, on the directory of this
\* run, or dangling): the link is gone before os.symlink is called, the link
\* is on the directory of this run from the delivery gate on, and no run
\* that got past the generation ends with an uncaught exception.
C18_RepointCompletesFromEveryLinkState ==
    /\ pc = "symlink" => latest = "absent"
    /\ pc \in {"gate", "communicate", "delete_generated",
               "delete_ineligible", "shutdown", "done"} => latest = TodayDir
    /\ pc = "raised" => ~cyhy_org_ids_bound

====
